---- MODULE Spec2Model ----
(***************************************************************************)
(* Model of src/storage/function_storage.py: FunctionStorage (the          *)
(* versioned artifact store) and FunctionRegistry.                         *)
(*                                                                         *)
(* The three storage directories are modelled as finite maps from file     *)
(* name to file content.  File names are the strings the code builds with  *)
(* its f-strings, so that two paths that coincide in the code coincide     *)
(* here and a glob pattern matches here exactly the names it matches on    *)
(* disk.  A call made by a single client is one action, executed as a      *)
(* whole.  For calls made by two threads, save_function and                *)
(* import_function are split into one step per file access, since the      *)
(* code takes no lock.                                                     *)
(***************************************************************************)
EXTENDS Integers, Sequences, FiniteSets, TLC

\* ------------------------------------------------------------------------
\* Bounds and input samples
\* ------------------------------------------------------------------------

\* datetime.now() is a counter advanced by every save and registration;
\* the bound caps the number of writes in one behaviour.
MaxClock == 2

\* Entity ids.  "A_vB" begins with "A" followed by "_v".
Companies == {"A", "A_vB"}

\* An entity id with a character class of glob patterns in it.
BracketCompanies == {"A[1]"}

AllCompanies == Companies \cup BracketCompanies

\* Python values of a metadata mapping, tagged with their type.
PyStr(s) == [py |-> "str", value |-> s]
PyTuple(items) == [py |-> "tuple", value |-> items]
PyList(items) == [py |-> "list", value |-> items]

\* The (code, metadata) pairs that are saved.  The second blob contains a
\* carriage return + line feed, and its metadata a tuple of strings.
Artifacts ==
    {[function_code |-> "CODE_V1", metadata |-> [company_name |-> PyStr("Acme")]],
     [function_code |-> "x\r\ny",
      metadata |-> [company_name |-> PyStr("Acme"),
                    airlines |-> PyTuple(<<"BA", "LH">>)]]}

\* The blobs that are saved to be imported: two modules of the same length
\* that bind x to different values, and one whose execution raises.
Programs ==
    {[function_code |-> "x = 1", metadata |-> [company_name |-> PyStr("Acme")]],
     [function_code |-> "x = 2", metadata |-> [company_name |-> PyStr("Acme")]],
     [function_code |-> "CODE_V1", metadata |-> [company_name |-> PyStr("Acme")]]}

\* Module texts the code generator returns: one with line feeds, the same
\* with carriage return + line feed, and one whose execution raises.  The
\* first two end with a discovery function, as the generator's template
\* appends one; it declares one function, 'f'.
Discovery == "get_available_functions=lambda:['f']"
GeneratedModule == "x=1\n" \o Discovery
GeneratedModuleCRLF == "x=1\r\n" \o Discovery
GeneratedCodes == {GeneratedModule, GeneratedModuleCRLF, "CODE_V1"}

Codes == {a.function_code : a \in Artifacts \cup Programs} \cup GeneratedCodes

\* The threads of a client that calls the store concurrently.
Threads == {"T1", "T2"}

\* A thread that is executing no call.
Idle == [pc |-> "idle"]

\* Function descriptors a generated module declares.
CabinFn == [name |-> "check_cabin_class", description |-> "Allowed cabin class"]
CostFn == [name |-> "check_cost_approval", description |-> "Approval needed for a cost"]

\* Activated modules: two expose get_available_functions (the record field
\* is what the call returns), the third lacks it.
Modules ==
    {[get_available_functions |-> <<CabinFn>>],
     [get_available_functions |-> <<CabinFn, CostFn>>],
     [validate |-> TRUE]}

\* Search keywords: each occurs, in another case, in the name and the
\* description of one of the two functions.
Keywords == {"CABIN", "approval"}

\* Explicit version arguments of save; "v2" is not of the form
\* major.minor.patch.
SaveVersions == {"1.0.0", "v2"}

\* Version arguments of load and delete.
Versions == {"1.0.0", "1.0.1", "v2"}

\* Every version a save can resolve to within MaxClock saves.
AllVersions == Versions \cup {"1.0." \o ToString(n) : n \in 0..MaxClock}

\* The falsy value of an Optional[str] argument: the code tests `if version`
\* / `if not version`, which None and "" both fail.
NoVersion == ""

\* The None a method returns.
None == [none |-> TRUE]

VARIABLES
    functions_dir,  \* storage_dir/functions: file name -> text written
    versions_dir,   \* storage_dir/versions:  file name -> text written
    metadata_dir,   \* storage_dir/metadata:  file name -> JSON document
    now,            \* the clock read by datetime.now()
    last,           \* the last call made and what it returned or raised
    before,         \* the three directories as they were when that call began
    saves,          \* per entity: the save calls that returned since the
                    \* entity's last delete without version, oldest first
    storage_root,   \* storage_dir itself: the files import_function and the
                    \* import machinery leave there, file name -> content
    threads         \* per thread: the call it is executing step by step

vars == <<functions_dir, versions_dir, metadata_dir, now, last, before, saves,
          storage_root, threads>>

\* The three directories of the current state.
store == [functions |-> functions_dir, versions |-> versions_dir, metadata |-> metadata_dir]

\* ------------------------------------------------------------------------
\* Files
\* ------------------------------------------------------------------------

EmptyDir == [n \in {} |-> ""]

exists(dir, name) == name \in DOMAIN dir

\* open(name, 'w') followed by write/dump: creates or truncates the file.
write_file(dir, name, content) ==
    [n \in (DOMAIN dir) \cup {name} |-> IF n = name THEN content ELSE dir[n]]

\* Path.unlink() of every name in names.
unlink(dir, names) == [n \in (DOMAIN dir) \ names |-> dir[n]]

Char(s, i) == SubSeq(s, i, i)

\* In a pattern that begins with "[": the index of the "]" that closes the
\* character class, or 0 when there is none (the "[" is then literal).  A
\* leading "!" negates the class, and a "]" that comes first is a member.
class_end(pat) ==
    LET i == IF Len(pat) >= 2 /\ Char(pat, 2) = "!" THEN 3 ELSE 2
        from == IF Len(pat) >= i /\ Char(pat, i) = "]" THEN i + 1 ELSE i
        ends == {j \in from..Len(pat) : Char(pat, j) = "]"}
    IN  IF ends = {} THEN 0 ELSE CHOOSE j \in ends : \A k \in ends : j <= k

\* fnmatch: `*` matches any run of characters, `?` one character, `[...]`
\* one character of the class (`[!...]`: one not in it); any other
\* character matches itself.  Ranges (a-z) are not modelled: no id has "-".
\* The pattern has no special character: it matches only itself.
is_literal(pat) == \A i \in 1..Len(pat) : Char(pat, i) \notin {"*", "?", "["}

RECURSIVE fnmatch(_, _)
fnmatch(pat, name) ==
    IF pat = "" THEN name = ""
    ELSE LET c == Char(pat, 1)
             rest == SubSeq(pat, 2, Len(pat))
             tail == SubSeq(name, 2, Len(name))
         IN  IF is_literal(pat)
             THEN name = pat
             ELSE IF c = "*" /\ is_literal(rest)
             THEN /\ Len(name) >= Len(rest)
                  /\ SubSeq(name, Len(name) - Len(rest) + 1, Len(name)) = rest
             ELSE IF c = "*"
             THEN \E k \in 0..Len(name) : fnmatch(rest, SubSeq(name, k + 1, Len(name)))
             ELSE IF c = "?"
             THEN name # "" /\ fnmatch(rest, tail)
             ELSE IF c = "[" /\ class_end(pat) # 0
             THEN LET j == class_end(pat)
                      negated == Char(pat, 2) = "!"
                      members == {Char(pat, k) : k \in (IF negated THEN 3 ELSE 2)..(j - 1)}
                  IN  /\ name # ""
                      /\ (Char(name, 1) \in members) # negated
                      /\ fnmatch(SubSeq(pat, j + 1, Len(pat)), tail)
             ELSE name # "" /\ Char(name, 1) = c /\ fnmatch(rest, tail)

\* Every file name save_function and register_functions can write, and every
\* pattern delete_function and list_companies glob with.
FileNames ==
    UNION {{c \o ".py", c \o "_history.json", c \o "_registry.json"}
           \cup {c \o "_v" \o v \o ".py" : v \in AllVersions}
           \cup {c \o "_v" \o v \o ".json" : v \in AllVersions} : c \in AllCompanies}

Patterns ==
    {"*.py"} \cup {c \o "_v*.py" : c \in AllCompanies}
             \cup {c \o "_v*.json" : c \in AllCompanies}

\* fnmatch tabulated over these patterns and names.
matches == [pat \in Patterns |-> {n \in FileNames : fnmatch(pat, n)}]

\* Path.glob(pattern): the names of the directory that match the pattern.
glob(dir, pattern) ==
    {n \in DOMAIN dir : IF pattern \in Patterns /\ n \in FileNames
                        THEN n \in matches[pattern]
                        ELSE fnmatch(pattern, n)}

\* f.read() of a file opened with open(name, 'r'): text mode with universal
\* newlines, which turns "\r\n" and a lone "\r" into "\n".
RECURSIVE read_text(_)
read_text(s) ==
    IF s = "" THEN ""
    ELSE IF SubSeq(s, 1, 1) = "\r"
         THEN "\n" \o read_text(SubSeq(s,
                  (IF Len(s) >= 2 /\ SubSeq(s, 2, 2) = "\n" THEN 3 ELSE 2), Len(s)))
         ELSE SubSeq(s, 1, 1) \o read_text(SubSeq(s, 2, Len(s)))

current_file(company_id) == company_id \o ".py"
version_file(company_id, version) == company_id \o "_v" \o version \o ".py"
metadata_file(company_id, version) == company_id \o "_v" \o version \o ".json"
history_file(company_id) == company_id \o "_history.json"
registry_file(company_id) == company_id \o "_registry.json"

\* ------------------------------------------------------------------------
\* Conversions
\* ------------------------------------------------------------------------

\* json.dump followed by json.load of one value: a string comes back as the
\* same string, a tuple or list comes back as a list.
json_value(v) == IF v.py = "tuple" THEN PyList(v.value) ELSE v

\* json.dump followed by json.load of a mapping with string keys.
json_mapping(d) == [k \in DOMAIN d |-> json_value(d[k])]

\* hashlib.sha256(code.encode()).hexdigest()[:16], tabulated for Codes, for
\* what read_text makes of them and for the empty string.
sha256_16 ==
    [c \in Codes \cup {read_text(d) : d \in Codes} \cup {""} |->
        CASE c = "" -> "e3b0c44298fc1c14"
          [] c = "CODE_V1" -> "b940ba6263639c3b"
          [] c = "x\r\ny" -> "b81d54de3d39c210"
          [] c = "x\ny" -> "9ab9de25768ac172"
          [] c = "x = 1" -> "8ff436def1451285"
          [] c = "x = 2" -> "1431b986377b5430"
          [] c = GeneratedModule -> "b8ee79897df43ee7"
          [] c = GeneratedModuleCRLF -> "e80d4cb0b6f0260a"]

\* A faulty hash: taken of the text as a text-mode read returns it.
hash_of_text_read(code) == sha256_16[read_text(code)]

_hash_code(code) == sha256_16[code]

\* The ASCII letters and digits in code point order.
UpperLetters == "ABCDEFGHIJKLMNOPQRSTUVWXYZ"
LowerLetters == "abcdefghijklmnopqrstuvwxyz"
DecimalDigits == "0123456789"

\* The index of the character c in the string s, 0 when it is not in it.
index_in(s, c) ==
    IF \E i \in 1..Len(s) : Char(s, i) = c
    THEN CHOOSE i \in 1..Len(s) : Char(s, i) = c
    ELSE 0

\* ord(c) for the characters of entity ids, names and keywords.
ord(c) ==
    CASE index_in(UpperLetters, c) > 0 -> 64 + index_in(UpperLetters, c)
      [] index_in(LowerLetters, c) > 0 -> 96 + index_in(LowerLetters, c)
      [] index_in(DecimalDigits, c) > 0 -> 47 + index_in(DecimalDigits, c)
      [] c = " " -> 32
      [] c = "." -> 46
      [] c = "[" -> 91
      [] c = "]" -> 93
      [] c = "_" -> 95

\* a < b on str: by code point, a proper prefix comes first.
RECURSIVE str_less(_, _)
str_less(a, b) ==
    IF b = "" THEN FALSE
    ELSE IF a = "" THEN TRUE
    ELSE IF Char(a, 1) # Char(b, 1) THEN ord(Char(a, 1)) < ord(Char(b, 1))
    ELSE str_less(SubSeq(a, 2, Len(a)), SubSeq(b, 2, Len(b)))

\* sorted(list(names)) of a set of strings.
RECURSIVE sorted(_)
sorted(names) ==
    IF names = {} THEN <<>>
    ELSE LET least == CHOOSE n \in names : \A m \in names \ {n} : str_less(n, m)
         IN  <<least>> \o sorted(names \ {least})

\* str.lower() on ASCII text.
RECURSIVE lower(_)
lower(s) ==
    IF s = "" THEN ""
    ELSE LET c == Char(s, 1)
             low == IF index_in(UpperLetters, c) > 0
                    THEN Char(LowerLetters, index_in(UpperLetters, c)) ELSE c
         IN  low \o lower(SubSeq(s, 2, Len(s)))

\* `sub in s` on str.
contains(sub, s) ==
    \E i \in 1..(Len(s) - Len(sub) + 1) : SubSeq(s, i, i + Len(sub) - 1) = sub

\* str.split('.')
RECURSIVE split_dot(_)
split_dot(s) ==
    IF \E i \in 1..Len(s) : Char(s, i) = "."
    THEN LET i == CHOOSE j \in 1..Len(s) :
                    /\ Char(s, j) = "."
                    /\ \A k \in 1..(j - 1) : Char(s, k) # "."
         IN  <<SubSeq(s, 1, i - 1)>> \o split_dot(SubSeq(s, i + 1, Len(s)))
    ELSE <<s>>

Digits == {"0", "1", "2", "3", "4", "5", "6", "7", "8", "9"}

DigitVal(c) ==
    CASE c = "0" -> 0 [] c = "1" -> 1 [] c = "2" -> 2 [] c = "3" -> 3
      [] c = "4" -> 4 [] c = "5" -> 5 [] c = "6" -> 6 [] c = "7" -> 7
      [] c = "8" -> 8 [] c = "9" -> 9

\* str.strip() for the blank character.
RECURSIVE strip(_)
strip(s) ==
    IF s # "" /\ Char(s, 1) = " " THEN strip(SubSeq(s, 2, Len(s)))
    ELSE IF s # "" /\ Char(s, Len(s)) = " " THEN strip(SubSeq(s, 1, Len(s) - 1))
    ELSE s

\* The part of an integer literal after its sign.
int_digits(s) ==
    LET t == strip(s)
    IN  IF t # "" /\ Char(t, 1) \in {"+", "-"} THEN SubSeq(t, 2, Len(t)) ELSE t

\* int(s) succeeds: optional blanks, an optional sign, then digits with
\* single underscores allowed between them.
int_ok(s) ==
    LET d == int_digits(s)
    IN  /\ d # ""
        /\ Char(d, 1) \in Digits
        /\ Char(d, Len(d)) \in Digits
        /\ \A i \in 1..Len(d) : Char(d, i) \in Digits \cup {"_"}
        /\ \A i \in 1..(Len(d) - 1) : ~(Char(d, i) = "_" /\ Char(d, i + 1) = "_")

RECURSIVE digits_value(_, _)
digits_value(d, acc) ==
    IF d = "" THEN acc
    ELSE IF Char(d, 1) = "_" THEN digits_value(SubSeq(d, 2, Len(d)), acc)
    ELSE digits_value(SubSeq(d, 2, Len(d)), 10 * acc + DigitVal(Char(d, 1)))

\* int(s), for s with int_ok(s).
int_of(s) ==
    LET t == strip(s)
        n == digits_value(int_digits(s), 0)
    IN  IF Char(t, 1) = "-" THEN 0 - n ELSE n

\* ------------------------------------------------------------------------
\* FunctionStorage
\* ------------------------------------------------------------------------

\* The default storage_dir and the paths reported in results.
storage_dir == "generated"
functions_path(name) == storage_dir \o "/functions/" \o name
versions_path(name) == storage_dir \o "/versions/" \o name

\* The empty dict {}.
EmptyDict == [k \in {} |-> ""]

\* _get_version_history, reading the metadata directory md.
_get_version_history(md, company_id) ==
    IF ~exists(md, history_file(company_id)) THEN <<>>
    ELSE md[history_file(company_id)]

\* _generate_version: the next version, or the exception that int() or the
\* indexing of parts raises; the three parts are converted left to right.
_generate_version(md, company_id) ==
    LET history == _get_version_history(md, company_id)
    IN  IF history = <<>> THEN [raised |-> "", value |-> "1.0.0"]
        ELSE LET last_version == history[Len(history)].version
                 parts == split_dot(last_version)
                 bad(i) == IF Len(parts) < i THEN "IndexError"
                           ELSE IF ~int_ok(parts[i]) THEN "ValueError"
                           ELSE ""
             IN  IF bad(1) # "" THEN [raised |-> bad(1), value |-> ""]
                 ELSE IF bad(2) # "" THEN [raised |-> bad(2), value |-> ""]
                 ELSE IF bad(3) # "" THEN [raised |-> bad(3), value |-> ""]
                 ELSE [raised |-> "",
                       value |-> ToString(int_of(parts[1])) \o "."
                                 \o ToString(int_of(parts[2])) \o "."
                                 \o ToString(int_of(parts[3]) + 1)]

\* _update_version_history: read the ledger, append one entry, write it back.
_update_version_history(md, company_id, metadata) ==
    write_file(md, history_file(company_id),
               Append(_get_version_history(md, company_id),
                      [version |-> metadata.version,
                       created_at |-> metadata.created_at,
                       code_hash |-> metadata.code_hash]))

\* A faulty resolution: an explicit version that the ledger already ends
\* with is refused.
resolve_version_checked(company_id, version) ==
    LET history == _get_version_history(metadata_dir, company_id)
    IN  IF version = NoVersion THEN _generate_version(metadata_dir, company_id)
        ELSE IF history # <<>> /\ history[Len(history)].version = version
        THEN [raised |-> "ValueError", value |-> ""]
        ELSE [raised |-> "", value |-> version]

\* The version save_function resolves: the argument, or a generated one.
resolve_version(company_id, version) ==
    IF version = NoVersion THEN _generate_version(metadata_dir, company_id)
    ELSE [raised |-> "", value |-> version]

\* The metadata record save_function builds, as json.load reads it back.
metadata_info(company_id, function_code, metadata, version) ==
    [company_id |-> company_id,
     version |-> version,
     created_at |-> now,
     code_hash |-> _hash_code(function_code),
     metadata |-> json_mapping(metadata),
     file_path |-> functions_path(current_file(company_id)),
     version_path |-> versions_path(version_file(company_id, version))]

\* What save_function writes, in its order: current copy, versioned copy,
\* metadata record, then the ledger.
\* A faulty save: the current copy is written only when there is none yet.
save_current_if_absent(company_id, function_code) ==
    IF exists(functions_dir, current_file(company_id)) THEN functions_dir
    ELSE write_file(functions_dir, current_file(company_id), function_code)

save_current(company_id, function_code) ==
    write_file(functions_dir, current_file(company_id), function_code)

save_versioned(company_id, function_code, version) ==
    write_file(versions_dir, version_file(company_id, version), function_code)

save_metadata(company_id, info) ==
    _update_version_history(
        write_file(metadata_dir, metadata_file(company_id, info.version), info),
        company_id, info)

\* The dict save_function returns.
save_result(company_id, function_code, version) ==
    [success |-> TRUE,
     company_id |-> company_id,
     version |-> version,
     file_path |-> functions_path(current_file(company_id)),
     version_path |-> versions_path(version_file(company_id, version)),
     code_hash |-> _hash_code(function_code)]

save_function(company_id, function_code, metadata, version) ==
    LET gen == resolve_version(company_id, version)
        call == [op |-> "save_function", company_id |-> company_id,
                 function_code |-> function_code, metadata |-> metadata,
                 version |-> version]
    IN  /\ before' = store
        /\ UNCHANGED <<storage_root, threads>>
        /\ IF gen.raised # ""
           THEN /\ last' = [call |-> call, raised |-> gen.raised, result |-> None]
                /\ UNCHANGED <<functions_dir, versions_dir, metadata_dir, now, saves>>
           ELSE LET info == metadata_info(company_id, function_code, metadata, gen.value)
                IN  /\ functions_dir' = save_current(company_id, function_code)
                    /\ versions_dir' = save_versioned(company_id, function_code, gen.value)
                    /\ metadata_dir' = save_metadata(company_id, info)
                    /\ now' = now + 1
                    /\ saves' = [saves EXCEPT ![company_id] = Append(@, call)]
                    /\ last' = [call |-> call, raised |-> "",
                                result |-> save_result(company_id, function_code, gen.value)]

\* The file accesses of save_function at which the operating system can
\* raise OSError: the writes of the current copy, of the versioned copy, of
\* the metadata record and of the ledger.
SaveFaults == {"current", "versioned", "metadata", "history"}

\* `with open(path, 'w') as f: f.write(...)` raising OSError: the file is as
\* it was when open() raises, and empty when open() has truncated it and the
\* write raises.
failed_write(dir, name, truncated) ==
    IF truncated THEN write_file(dir, name, "") ELSE dir

\* save_function when the access `at` raises OSError: the statements before
\* it have run, the ones after it have not, and nothing is undone.  For the
\* two JSON files the error is the one open() raises.  The clock advances
\* during the call.
save_function_oserror(company_id, function_code, metadata, version, at, truncated) ==
    LET gen == resolve_version(company_id, version)
        call == [op |-> "save_function", company_id |-> company_id,
                 function_code |-> function_code, metadata |-> metadata,
                 version |-> version]
        info == metadata_info(company_id, function_code, metadata, gen.value)
    IN  /\ gen.raised = ""
        /\ truncated => at \in {"current", "versioned"}
        /\ before' = store
        /\ UNCHANGED <<storage_root, threads, saves>>
        /\ functions_dir' =
               IF at = "current"
               THEN failed_write(functions_dir, current_file(company_id), truncated)
               ELSE save_current(company_id, function_code)
        /\ versions_dir' =
               IF at = "current" THEN versions_dir
               ELSE IF at = "versioned"
               THEN failed_write(versions_dir, version_file(company_id, gen.value),
                                 truncated)
               ELSE save_versioned(company_id, function_code, gen.value)
        /\ metadata_dir' =
               IF at = "history"
               THEN write_file(metadata_dir, metadata_file(company_id, gen.value), info)
               ELSE metadata_dir
        /\ now' = now + 1
        /\ last' = [call |-> call, raised |-> "OSError", result |-> None, at |-> at]

\* load_function on the directories st: None, or the dict with code,
\* metadata, company_id and version.
load_from(st, company_id, version) ==
    LET history == _get_version_history(st.metadata, company_id)
        by_version == version # NoVersion
        dir == IF by_version THEN st.versions ELSE st.functions
        code_file == IF by_version THEN version_file(company_id, version)
                     ELSE current_file(company_id)
    IN  IF ~by_version /\ history = <<>> THEN None
        ELSE IF ~exists(dir, code_file) THEN None
        ELSE LET meta_file ==
                     IF by_version THEN metadata_file(company_id, version)
                     ELSE metadata_file(company_id, history[Len(history)].version)
                 metadata == IF exists(st.metadata, meta_file)
                             THEN st.metadata[meta_file] ELSE EmptyDict
             IN  [code |-> read_text(dir[code_file]),
                  metadata |-> metadata,
                  company_id |-> company_id,
                  version |-> IF "version" \in DOMAIN metadata
                              THEN metadata.version ELSE "unknown"]

load_function(company_id, version) == load_from(store, company_id, version)

\* list_companies: the set `companies` of the stems of functions/*.py.
list_companies ==
    {SubSeq(n, 1, Len(n) - 3) : n \in glob(functions_dir, "*.py")}

\* return sorted(list(companies))
list_companies_sorted == sorted(list_companies)

\* get_version_history
get_version_history(company_id) == _get_version_history(metadata_dir, company_id)

\* A faulty delete: deleting a version also unlinks the current copy.
delete_version_and_current(company_id, version) ==
    [functions |-> unlink(functions_dir, {current_file(company_id)}),
     versions |-> unlink(versions_dir, {version_file(company_id, version)}),
     metadata |-> unlink(metadata_dir, {metadata_file(company_id, version)})]

\* delete_function with a version: unlink the versioned copy and the
\* metadata record of that version when they exist.
delete_version_files(company_id, version) ==
    [functions |-> functions_dir,
     versions |-> unlink(versions_dir, {version_file(company_id, version)}),
     metadata |-> unlink(metadata_dir, {metadata_file(company_id, version)})]

\* A faulty purge: the metadata records of the versions are left in place.
delete_all_but_records(company_id) ==
    [functions |-> unlink(functions_dir, {current_file(company_id)}),
     versions |-> unlink(versions_dir, glob(versions_dir, company_id \o "_v*.py")),
     metadata |-> unlink(metadata_dir, {history_file(company_id)})]

\* A faulty purge: the current copy is left in place.
delete_all_but_current(company_id) ==
    [functions |-> functions_dir,
     versions |-> unlink(versions_dir, glob(versions_dir, company_id \o "_v*.py")),
     metadata |-> unlink(unlink(metadata_dir,
                                glob(metadata_dir, company_id \o "_v*.json")),
                         {history_file(company_id)})]

\* delete_function without a version: unlink the current copy, every file
\* the two globs match, then the ledger.
delete_all_files(company_id) ==
    [functions |-> unlink(functions_dir, {current_file(company_id)}),
     versions |-> unlink(versions_dir, glob(versions_dir, company_id \o "_v*.py")),
     metadata |-> unlink(unlink(metadata_dir,
                                glob(metadata_dir, company_id \o "_v*.json")),
                         {history_file(company_id)})]

delete_function(company_id, version) ==
    LET after == IF version # NoVersion
                 THEN delete_version_files(company_id, version)
                 ELSE delete_all_files(company_id)
    IN  /\ before' = store
        /\ functions_dir' = after.functions
        /\ versions_dir' = after.versions
        /\ metadata_dir' = after.metadata
        /\ saves' = IF version # NoVersion THEN saves
                    ELSE [saves EXCEPT ![company_id] = <<>>]
        /\ last' = [call |-> [op |-> "delete_function", company_id |-> company_id,
                              version |-> version],
                    raised |-> "", result |-> TRUE]
        /\ UNCHANGED <<now, storage_root, threads>>

\* ------------------------------------------------------------------------
\* save_function executed by a thread
\* ------------------------------------------------------------------------

\* The thread has finished its call: what it raised or returned.
finished(t, raised, result) ==
    [threads EXCEPT ![t] = [@ EXCEPT !.pc = "done"] @@
                           [raised |-> raised, result |-> result]]

\* One step per access to the file system, in the order of the code.  The
\* steps of a thread leave the record of the last sequential call alone.
save_frame == UNCHANGED <<last, before, saves, storage_root>>

\* version = self._generate_version(company_id) when none is given: the
\* ledger is read here, and the exception of the parse leaves the call.
save_resolve(t, company_id, function_code, metadata, version) ==
    LET gen == resolve_version(company_id, version)
        call == [op |-> "save_function", company_id |-> company_id,
                 function_code |-> function_code, metadata |-> metadata,
                 version |-> version]
    IN  /\ threads[t] = Idle
        /\ threads' = [threads EXCEPT ![t] =
               IF gen.raised # ""
               THEN [pc |-> "done", call |-> call, raised |-> gen.raised,
                     result |-> None]
               ELSE [pc |-> "write_current", call |-> call, version |-> gen.value,
                     read |-> _get_version_history(metadata_dir, company_id)]]
        /\ UNCHANGED <<functions_dir, versions_dir, metadata_dir, now>>
        /\ save_frame

\* with open(function_file, 'w') as f: f.write(function_code)
save_write_current(t) ==
    /\ threads[t].pc = "write_current"
    /\ functions_dir' = save_current(threads[t].call.company_id,
                                     threads[t].call.function_code)
    /\ threads' = [threads EXCEPT ![t].pc = "write_versioned"]
    /\ UNCHANGED <<versions_dir, metadata_dir, now>>
    /\ save_frame

\* A faulty write: the versioned copy is created exclusively, and the call
\* raises when it is there already.
save_write_versioned_exclusive(t) ==
    LET call == threads[t].call
    IN  /\ threads[t].pc = "write_versioned"
        /\ IF exists(versions_dir, version_file(call.company_id, threads[t].version))
           THEN /\ threads' = finished(t, "FileExistsError", None)
                /\ UNCHANGED versions_dir
           ELSE /\ versions_dir' = save_versioned(call.company_id, call.function_code,
                                                  threads[t].version)
                /\ threads' = [threads EXCEPT ![t].pc = "write_metadata"]
        /\ UNCHANGED <<functions_dir, metadata_dir, now>>
        /\ save_frame

\* with open(version_file, 'w') as f: f.write(function_code)
save_write_versioned(t) ==
    LET call == threads[t].call
    IN  /\ threads[t].pc = "write_versioned"
        /\ versions_dir' = save_versioned(call.company_id, call.function_code,
                                          threads[t].version)
        /\ threads' = [threads EXCEPT ![t].pc = "write_metadata"]
        /\ UNCHANGED <<functions_dir, metadata_dir, now>>
        /\ save_frame

\* metadata_info is built, reading the clock, and dumped to the record.
save_write_metadata(t) ==
    LET call == threads[t].call
        info == metadata_info(call.company_id, call.function_code, call.metadata,
                              threads[t].version)
    IN  /\ threads[t].pc = "write_metadata"
        /\ metadata_dir' = write_file(metadata_dir,
                                      metadata_file(call.company_id, info.version), info)
        /\ now' = now + 1
        /\ threads' = [threads EXCEPT ![t] = [@ EXCEPT !.pc = "read_history"] @@
                          [info |-> info]]
        /\ UNCHANGED <<functions_dir, versions_dir>>
        /\ save_frame

\* _update_version_history: history = self._get_version_history(company_id)
save_read_history(t) ==
    /\ threads[t].pc = "read_history"
    /\ threads' = [threads EXCEPT ![t] = [@ EXCEPT !.pc = "write_history"] @@
                      [history |-> _get_version_history(metadata_dir,
                                                        threads[t].call.company_id)]]
    /\ UNCHANGED <<functions_dir, versions_dir, metadata_dir, now>>
    /\ save_frame

\* _update_version_history: the entry is appended to the list that was read
\* and the list dumped; then save_function returns its result.
save_write_history(t) ==
    LET call == threads[t].call
        info == threads[t].info
    IN  /\ threads[t].pc = "write_history"
        /\ metadata_dir' = write_file(metadata_dir, history_file(call.company_id),
                                      Append(threads[t].history,
                                             [version |-> info.version,
                                              created_at |-> info.created_at,
                                              code_hash |-> info.code_hash]))
        /\ threads' = finished(t, "", save_result(call.company_id, call.function_code,
                                                  threads[t].version))
        /\ UNCHANGED <<functions_dir, versions_dir, now>>
        /\ save_frame

\* ------------------------------------------------------------------------
\* import_function
\* ------------------------------------------------------------------------

\* The scratch file import_function stages the code in, and the bytecode
\* file the source loader caches next to it.
temp_file(company_id) == "_temp_" \o company_id \o ".py"
bytecode_file(company_id) == "__pycache__/_temp_" \o company_id \o ".cpython-311.pyc"

\* What executing a module body does, tabulated for the blobs that are
\* saved: it raises, or it leaves a namespace.
exec_outcome ==
    [c \in Codes \cup {read_text(d) : d \in Codes} |->
        CASE c = "x = 1" -> [raised |-> "", namespace |-> [x |-> 1]]
          [] c = "x = 2" -> [raised |-> "", namespace |-> [x |-> 2]]
          [] c = GeneratedModule ->
                 [raised |-> "",
                  namespace |-> [x |-> 1, get_available_functions |-> <<"f">>]]
          [] OTHER -> [raised |-> "NameError", namespace |-> None]]

\* The code object spec.loader.exec_module obtains for the scratch file of
\* the entity in the directory root.  Without the file the loader raises.
\* A cached bytecode file is used instead of the source when it records the
\* size and the modification time (in whole seconds) of the source;
\* same_mtime tells whether the times coincide.  Otherwise the source is
\* compiled and the bytecode file rewritten.
get_code(root, company_id, same_mtime) ==
    LET source == temp_file(company_id)
        cache == bytecode_file(company_id)
    IN  IF ~exists(root, source)
        THEN [raised |-> "FileNotFoundError", code |-> "", root |-> root]
        ELSE IF /\ exists(root, cache)
                /\ root[cache].source_size = Len(root[source])
                /\ same_mtime
        THEN [raised |-> "", code |-> root[cache].code, root |-> root]
        ELSE [raised |-> "", code |-> root[source],
              root |-> write_file(root, cache,
                                  [source_size |-> Len(root[source]),
                                   code |-> root[source]])]

\* The module object import_function returns.
policy_module(company_id, namespace) ==
    [name |-> "policy_" \o company_id, namespace |-> namespace]

\* import_function once the code is loaded: write the scratch file, execute
\* it as a module, unlink the scratch file, return the module.  An exception
\* of the execution leaves the function before the unlink.
import_staged(company_id, code, same_mtime) ==
    LET staged == write_file(storage_root, temp_file(company_id), code)
        got == get_code(staged, company_id, same_mtime)
        out == exec_outcome[got.code]
    IN  IF out.raised # ""
        THEN [raised |-> out.raised, result |-> None, root |-> got.root]
        ELSE [raised |-> "", result |-> policy_module(company_id, out.namespace),
              root |-> unlink(got.root, {temp_file(company_id)})]

import_function(company_id, version, same_mtime) ==
    LET call == [op |-> "import_function", company_id |-> company_id,
                 version |-> version]
        function_data == load_function(company_id, version)
    IN  /\ before' = store
        /\ UNCHANGED <<functions_dir, versions_dir, metadata_dir, now, saves, threads>>
        /\ IF function_data = None
           THEN /\ last' = [call |-> call, raised |-> "ValueError", result |-> None]
                /\ UNCHANGED storage_root
           ELSE LET done == import_staged(company_id, function_data.code, same_mtime)
                IN  /\ storage_root' = done.root
                    /\ last' = [call |-> call, raised |-> done.raised,
                                result |-> done.result]

\* import_function executed by a thread, one step per access to the file
\* system; the directories of the store are only read.
thread_frame ==
    UNCHANGED <<functions_dir, versions_dir, metadata_dir, now, last, before, saves>>

\* function_data = self.load_function(company_id, version), and the raise
\* when it is None.
import_load(t, company_id, version) ==
    LET function_data == load_function(company_id, version)
        call == [op |-> "import_function", company_id |-> company_id,
                 version |-> version]
    IN  /\ threads[t] = Idle
        /\ threads' = [threads EXCEPT ![t] =
               IF function_data = None
               THEN [pc |-> "done", call |-> call, found |-> FALSE, code |-> "",
                     raised |-> "ValueError", result |-> None]
               ELSE [pc |-> "write_temp", call |-> call, found |-> TRUE,
                     code |-> function_data.code]]
        /\ UNCHANGED storage_root
        /\ thread_frame

\* with open(temp_file, 'w') as f: f.write(function_data['code'])
import_write_temp(t) ==
    /\ threads[t].pc = "write_temp"
    /\ storage_root' = write_file(storage_root, temp_file(threads[t].call.company_id),
                                  threads[t].code)
    /\ threads' = [threads EXCEPT ![t].pc = "exec_module"]
    /\ thread_frame

\* spec.loader.exec_module(module): the loader reads the scratch file that
\* is there at this moment.
import_exec_module(t, same_mtime) ==
    LET company_id == threads[t].call.company_id
        got == get_code(storage_root, company_id, same_mtime)
        out == exec_outcome[got.code]
    IN  /\ threads[t].pc = "exec_module"
        /\ storage_root' = got.root
        /\ threads' =
               IF got.raised # "" THEN finished(t, got.raised, None)
               ELSE IF out.raised # "" THEN finished(t, out.raised, None)
               ELSE [threads EXCEPT ![t] = [@ EXCEPT !.pc = "unlink"] @@
                        [module |-> policy_module(company_id, out.namespace)]]
        /\ thread_frame

\* temp_file.unlink(), which raises when the file is not there, and the
\* return of the module.
import_unlink(t) ==
    LET name == temp_file(threads[t].call.company_id)
    IN  /\ threads[t].pc = "unlink"
        /\ IF exists(storage_root, name)
           THEN /\ storage_root' = unlink(storage_root, {name})
                /\ threads' = finished(t, "", threads[t].module)
           ELSE /\ threads' = finished(t, "FileNotFoundError", None)
                /\ UNCHANGED storage_root
        /\ thread_frame

\* ------------------------------------------------------------------------
\* FunctionRegistry
\* ------------------------------------------------------------------------

\* hasattr(module, 'get_available_functions')
has_discovery(module) == "get_available_functions" \in DOMAIN module

\* A faulty record: the functions of the earlier record are kept in front
\* of the new ones.
registry_record_merged(company_id, module) ==
    [company_id |-> company_id,
     registered_at |-> now,
     functions |-> (IF exists(metadata_dir, registry_file(company_id))
                    THEN metadata_dir[registry_file(company_id)].functions
                    ELSE <<>>) \o module.get_available_functions]

\* The record register_functions builds and dumps, at the time registered_at.
registry_record_at(registered_at, company_id, module) ==
    [company_id |-> company_id,
     registered_at |-> registered_at,
     functions |-> module.get_available_functions]

registry_record(company_id, module) == registry_record_at(now, company_id, module)

\* A faulty registration: a module without the discovery call clears the
\* record of the entity.
registry_cleared_on_error(company_id, module) ==
    IF has_discovery(module)
    THEN write_file(metadata_dir, registry_file(company_id),
                    registry_record(company_id, module))
    ELSE unlink(metadata_dir, {registry_file(company_id)})

\* The metadata directory after register_functions: the record is dumped to
\* {company_id}_registry.json only inside the hasattr branch.
registry_written(company_id, module) ==
    IF has_discovery(module)
    THEN write_file(metadata_dir, registry_file(company_id),
                    registry_record(company_id, module))
    ELSE metadata_dir

register_functions(company_id, module) ==
    LET call == [op |-> "register_functions", company_id |-> company_id,
                 module |-> module]
    IN  /\ before' = store
        /\ UNCHANGED <<functions_dir, versions_dir, saves, storage_root, threads>>
        /\ metadata_dir' = registry_written(company_id, module)
        /\ IF has_discovery(module)
           THEN /\ now' = now + 1
                /\ last' = [call |-> call, raised |-> "",
                            result |-> registry_record(company_id, module)]
           ELSE /\ last' = [call |-> call, raised |-> "",
                            result |-> [error |-> "Module does not have get_available_functions()"]]
                /\ UNCHANGED now

get_registry(company_id) ==
    IF ~exists(metadata_dir, registry_file(company_id)) THEN None
    ELSE metadata_dir[registry_file(company_id)]

\* The condition of the inner loop of search_functions.
keyword_matches(keyword, func) ==
    \/ contains(lower(keyword), lower(func.name))
    \/ contains(lower(keyword), lower(func.description))

\* {"company_id": company_id, **func}
search_hit(company_id, func) ==
    [k \in {"company_id"} \cup DOMAIN func |->
        IF k \in DOMAIN func THEN func[k] ELSE company_id]

\* The hits of one entity: nothing when it has no registry record.
search_registry(company_id, keyword) ==
    LET registry == get_registry(company_id)
    IN  IF registry = None \/ "functions" \notin DOMAIN registry THEN <<>>
        ELSE LET hits == SelectSeq(registry.functions,
                                   LAMBDA func : keyword_matches(keyword, func))
             IN  [i \in 1..Len(hits) |-> search_hit(company_id, hits[i])]

\* The loops of search_functions over the entity ids in the given order.
RECURSIVE search_over(_, _)
search_over(company_ids, keyword) ==
    IF company_ids = <<>> THEN <<>>
    ELSE search_registry(Head(company_ids), keyword)
         \o search_over(Tail(company_ids), keyword)

\* search_functions: the entities are those of storage.list_companies().
search_functions(keyword) == search_over(sorted(list_companies), keyword)

\* ------------------------------------------------------------------------
\* AzureOpenAIPolicyClient.query
\* ------------------------------------------------------------------------

\* The largest max_iterations argument, and the most tool calls in one
\* response of the model.
MaxIterations == 3
MaxToolCalls == 2

\* The thread that makes the query.
QueryThreads == {"T1"}

\* function_map as the set of its keys: empty before load_policy_functions,
\* then the names of the loaded module's functions.
FunctionMaps == {{}, {CabinFn.name}}

\* The function names the model can ask for: one that is in the map, one
\* that is not.
ToolNames == {CabinFn.name, "lookup_weather"}

\* message.tool_calls of one response, by function name; None and the empty
\* list are both falsy and are the empty sequence here.
ToolCallLists == UNION {[1..n -> ToolNames] : n \in 0..MaxToolCalls}

\* The statements of one tool call that can raise.
ToolFaults == {"json.loads", "function", "json.dumps"}

\* The result dicts of query.
query_no_client ==
    [error |-> "Azure OpenAI client not initialized. Check credentials.",
     answer |-> None]

query_no_functions ==
    [error |-> "No policy functions loaded. Call load_policy_functions() first.",
     answer |-> None]

query_answer(content, function_calls, iteration, messages) ==
    [answer |-> content, function_calls |-> function_calls,
     iterations |-> iteration, conversation |-> messages]

query_error(function_calls) ==
    [error |-> "Error during query", answer |-> None,
     function_calls |-> function_calls]

query_max_iterations(function_calls) ==
    [error |-> "Max iterations reached",
     answer |-> "Could not complete query within iteration limit",
     function_calls |-> function_calls]

\* The `for tool_call in message.tool_calls` loop from the i-th call on.
\* acc holds function_calls and messages (by role); the raise_at-th call
\* raises in the statement raise_in, which ends the loop.  A function that
\* is not in function_map is skipped after its arguments were parsed.
RECURSIVE run_tool_calls(_, _, _, _, _, _)
run_tool_calls(function_map, tool_calls, i, raise_at, raise_in, acc) ==
    IF i > Len(tool_calls) THEN acc
    ELSE LET name == tool_calls[i]
             called == [acc EXCEPT !.function_calls = Append(@, name)]
         IN  IF i = raise_at /\ raise_in # "json.dumps"
             THEN [acc EXCEPT !.raised = TRUE]
             ELSE IF i = raise_at
             THEN [called EXCEPT !.raised = TRUE,
                                 !.messages = Append(@, "assistant")]
             ELSE IF name \in function_map
             THEN run_tool_calls(function_map, tool_calls, i + 1, raise_at, raise_in,
                                 [called EXCEPT !.messages = @ \o <<"assistant", "tool">>])
             ELSE run_tool_calls(function_map, tool_calls, i + 1, raise_at, raise_in, acc)

\* A faulty count: a round in which no function was executed is not counted.
next_iteration_if_executed(iteration, function_calls_before, function_calls_after) ==
    IF function_calls_after = function_calls_before THEN iteration ELSE iteration + 1

\* iteration += 1 after the tool calls of a response were handled.
next_iteration(iteration, function_calls_before, function_calls_after) ==
    iteration + 1

\* The steps of a query leave the store and the last sequential call alone.
query_frame ==
    /\ UNCHANGED storage_root
    /\ UNCHANGED <<functions_dir, versions_dir, metadata_dir, now, last, before, saves>>

\* query up to the while loop: the two early returns, then the messages with
\* the system prompt put first.
query(t, client, function_map, max_iterations) ==
    LET call == [op |-> "query", client |-> client, function_map |-> function_map,
                 max_iterations |-> max_iterations]
        frame == [pc |-> "query_loop", call |-> call, iteration |-> 0,
                  function_calls |-> <<>>, messages |-> <<"system", "user">>,
                  model_calls |-> 0]
    IN  /\ threads[t] = Idle
        /\ threads' =
               IF ~client
               THEN [threads EXCEPT ![t] =
                        [frame EXCEPT !.pc = "done"]
                        @@ [raised |-> "", result |-> query_no_client]]
               ELSE IF function_map = {}
               THEN [threads EXCEPT ![t] =
                        [frame EXCEPT !.pc = "done"]
                        @@ [raised |-> "", result |-> query_no_functions]]
               ELSE [threads EXCEPT ![t] = frame]
        /\ query_frame

\* One pass of the while loop: chat.completions.create raises
\* (create_raises), or answers without tool calls, or asks for tool_calls,
\* which are executed in order; raise_at = 0 when none of them raises.
query_round(t, create_raises, tool_calls, raise_at, raise_in) ==
    LET f == threads[t]
        ran == run_tool_calls(f.call.function_map, tool_calls, 1, raise_at, raise_in,
                              [function_calls |-> f.function_calls,
                               messages |-> f.messages, raised |-> FALSE])
        called == [f EXCEPT !.model_calls = @ + 1]
    IN  /\ f.pc = "query_loop"
        /\ f.iteration < f.call.max_iterations
        /\ create_raises => tool_calls = <<>>
        /\ raise_at > 0 /\ raise_in # "json.loads" =>
               tool_calls[raise_at] \in f.call.function_map
        /\ threads' =
               IF create_raises
               THEN [threads EXCEPT ![t] =
                        [called EXCEPT !.pc = "done"]
                        @@ [raised |-> "", result |-> query_error(f.function_calls)]]
               ELSE IF tool_calls = <<>>
               THEN [threads EXCEPT ![t] =
                        [called EXCEPT !.pc = "done"]
                        @@ [raised |-> "",
                            result |-> query_answer("content", f.function_calls,
                                                    f.iteration, f.messages)]]
               ELSE IF ran.raised
               THEN [threads EXCEPT ![t] =
                        [called EXCEPT !.pc = "done",
                                       !.function_calls = ran.function_calls,
                                       !.messages = ran.messages]
                        @@ [raised |-> "", result |-> query_error(ran.function_calls)]]
               ELSE [threads EXCEPT ![t] =
                        [called EXCEPT
                            !.function_calls = ran.function_calls,
                            !.messages = ran.messages,
                            !.iteration = next_iteration(f.iteration, f.function_calls,
                                                         ran.function_calls)]]
        /\ query_frame

\* The while condition is false: the return after the loop.
query_exhausted(t) ==
    LET f == threads[t]
    IN  /\ f.pc = "query_loop"
        /\ f.iteration >= f.call.max_iterations
        /\ threads' = [threads EXCEPT ![t] =
               [f EXCEPT !.pc = "done"]
               @@ [raised |-> "", result |-> query_max_iterations(f.function_calls)]]
        /\ query_frame

\* ------------------------------------------------------------------------
\* PolicyPipeline.process_policy
\* ------------------------------------------------------------------------

\* Company names given to the pipeline.
CompanyNames == {"a", "A"}

\* The steps outside the store that can raise: the AI parser and generator
\* before the save, the test generator after the registration.
PipelineFaults == {"parse", "tests"}

\* str.upper() on ASCII text.
RECURSIVE upper(_)
upper(s) ==
    IF s = "" THEN ""
    ELSE LET c == Char(s, 1)
             up == IF index_in(LowerLetters, c) > 0
                   THEN Char(UpperLetters, index_in(LowerLetters, c)) ELSE c
         IN  up \o upper(SubSeq(s, 2, Len(s)))

\* str.replace(' ', '_')
RECURSIVE replace_blanks(_)
replace_blanks(s) ==
    IF s = "" THEN ""
    ELSE (IF Char(s, 1) = " " THEN "_" ELSE Char(s, 1))
         \o replace_blanks(SubSeq(s, 2, Len(s)))

\* results['company_id']
pipeline_company_id(company_name) == replace_blanks(upper(company_name))

\* register_functions on the metadata directory md at the time registered_at.
registry_written_to(md, registered_at, company_id, module) ==
    IF has_discovery(module)
    THEN write_file(md, registry_file(company_id),
                    registry_record_at(registered_at, company_id, module))
    ELSE md

\* What register_functions returns.
registry_info(registered_at, company_id, module) ==
    IF has_discovery(module)
    THEN registry_record_at(registered_at, company_id, module)
    ELSE [error |-> "Module does not have get_available_functions()"]

\* process_policy, from the generated code on: function_code is what the
\* generator returned in this run, fault the step outside the store that
\* raises ("" for none).  Step 4 saves, step 5 imports the saved code and
\* registers the module, step 6 writes the tests; any exception is caught
\* and gives success False with the error, leaving what was written.
process_policy(company_name, function_code, metadata, auto_version, fault, same_mtime) ==
    LET company_id == pipeline_company_id(company_name)
        version == IF auto_version THEN NoVersion ELSE "1.0.0"
        call == [op |-> "process_policy", company_name |-> company_name,
                 company_id |-> company_id, auto_version |-> auto_version]
        save_call == [op |-> "save_function", company_id |-> company_id,
                      function_code |-> function_code, metadata |-> metadata,
                      version |-> version]
        gen == resolve_version(company_id, version)
        info == metadata_info(company_id, function_code, metadata, gen.value)
        saved == [functions |-> save_current(company_id, function_code),
                  versions |-> save_versioned(company_id, function_code, gen.value),
                  metadata |-> save_metadata(company_id, info)]
        function_data == load_from(saved, company_id, NoVersion)
        done == import_staged(company_id, function_data.code, same_mtime)
        module == done.result.namespace
        failed(results, error) ==
            [k \in DOMAIN results \cup {"success", "error"} |->
                IF k = "success" THEN FALSE
                ELSE IF k = "error" THEN error ELSE results[k]]
        generated == [company_name |-> company_name, company_id |-> company_id,
                      function_code |-> function_code]
        stored == generated @@ save_result(company_id, function_code, gen.value)
        registered == stored @@ [registry |-> registry_info(now + 1, company_id, module)]
    IN  /\ before' = store
        /\ UNCHANGED threads
        /\ IF fault = "parse"
           THEN /\ last' = [call |-> call, raised |-> "",
                            result |-> [company_name |-> company_name,
                                        company_id |-> company_id,
                                        success |-> FALSE, error |-> "Exception"]]
                /\ UNCHANGED <<functions_dir, versions_dir, metadata_dir, now, saves,
                               storage_root>>
           ELSE IF gen.raised # ""
           THEN /\ last' = [call |-> call, raised |-> "",
                            result |-> failed(generated, gen.raised)]
                /\ UNCHANGED <<functions_dir, versions_dir, metadata_dir, now, saves,
                               storage_root>>
           ELSE /\ functions_dir' = saved.functions
                /\ versions_dir' = saved.versions
                /\ saves' = [saves EXCEPT ![company_id] = Append(@, save_call)]
                /\ storage_root' = done.root
                /\ IF done.raised # ""
                   THEN /\ metadata_dir' = saved.metadata
                        /\ now' = now + 1
                        /\ last' = [call |-> call, raised |-> "",
                                    result |-> failed(stored, done.raised)]
                   ELSE /\ metadata_dir' =
                               registry_written_to(saved.metadata, now + 1,
                                                   company_id, module)
                        /\ now' = IF has_discovery(module) THEN now + 2 ELSE now + 1
                        /\ last' = [call |-> call, raised |-> "",
                                    result |-> IF fault = "tests"
                                               THEN failed(registered, "OSError")
                                               ELSE registered]

\* ------------------------------------------------------------------------
\* The calls a client makes
\* ------------------------------------------------------------------------

\* A call that only reads: the store is left as it is.
returns(call, result) ==
    /\ last' = [call |-> call, raised |-> "", result |-> result]
    /\ before' = store
    /\ UNCHANGED <<functions_dir, versions_dir, metadata_dir, now, saves,
                   storage_root, threads>>

Init ==
    /\ functions_dir = EmptyDir
    /\ versions_dir = EmptyDir
    /\ metadata_dir = EmptyDir
    /\ now = 0
    /\ last = [call |-> [op |-> "__init__"], raised |-> "", result |-> None]
    /\ before = [functions |-> EmptyDir, versions |-> EmptyDir, metadata |-> EmptyDir]
    /\ saves = [c \in AllCompanies |-> <<>>]
    /\ storage_root = EmptyDir
    /\ threads = [t \in Threads |-> Idle]

SaveOf(companies, artifacts) ==
    \E company_id \in companies, artifact \in artifacts,
       version \in SaveVersions \cup {NoVersion} :
        /\ now < MaxClock
        /\ save_function(company_id, artifact.function_code, artifact.metadata, version)

Save(companies) == SaveOf(companies, Artifacts)

\* A save during which the file system refuses one write.
SaveFails(companies) ==
    \E company_id \in companies, artifact \in Artifacts,
       version \in SaveVersions \cup {NoVersion}, at \in SaveFaults,
       truncated \in BOOLEAN :
        /\ now < MaxClock
        /\ save_function_oserror(company_id, artifact.function_code,
                                 artifact.metadata, version, at, truncated)

Load(companies) ==
    \E company_id \in companies, version \in Versions \cup {NoVersion} :
        returns([op |-> "load_function", company_id |-> company_id, version |-> version],
                load_function(company_id, version))

ListCompanies ==
    returns([op |-> "list_companies"], list_companies_sorted)

GetVersionHistory(companies) ==
    \E company_id \in companies :
        returns([op |-> "get_version_history", company_id |-> company_id],
                get_version_history(company_id))

Delete(companies) ==
    \E company_id \in companies, version \in Versions \cup {NoVersion} :
        delete_function(company_id, version)

Register(companies) ==
    \E company_id \in companies, module \in Modules :
        /\ now < MaxClock
        /\ register_functions(company_id, module)

GetRegistry(companies) ==
    \E company_id \in companies :
        returns([op |-> "get_registry", company_id |-> company_id],
                get_registry(company_id))

Import(companies) ==
    \E company_id \in companies, version \in Versions \cup {NoVersion},
       same_mtime \in BOOLEAN :
        import_function(company_id, version, same_mtime)

Search ==
    \E keyword \in Keywords :
        returns([op |-> "search_functions", keyword |-> keyword],
                search_functions(keyword))

\* The calls of FunctionStorage by a client that uses the entity ids of
\* companies.
StorageCalls(companies) ==
    \/ Save(companies)
    \/ Load(companies)
    \/ ListCompanies
    \/ GetVersionHistory(companies)
    \/ Delete(companies)

\* The calls of FunctionRegistry, which shares the store's metadata directory.
RegistryCalls(companies) ==
    \/ Register(companies)
    \/ GetRegistry(companies)

Next == StorageCalls(Companies) \/ RegistryCalls(Companies)

Spec == Init /\ [][Next]_vars

\* Saving, registering, deleting and searching.
NextSearch ==
    \/ Save(Companies)
    \/ Delete(Companies)
    \/ Register(Companies)
    \/ Search

SpecSearch == Init /\ [][NextSearch]_vars

\* Saving modules and importing them, one call after the other.
NextImport ==
    \/ SaveOf({"A"}, Programs)
    \/ Delete({"A"})
    \/ Import({"A"})

SpecImport == Init /\ [][NextImport]_vars

\* No thread has begun a call.
AllIdle == \A t \in Threads : threads[t] = Idle

ImportLoad(companies) ==
    \E t \in Threads, company_id \in companies, version \in Versions \cup {NoVersion} :
        import_load(t, company_id, version)

ImportWriteTemp == \E t \in Threads : import_write_temp(t)

ImportExecModule ==
    \E t \in Threads, same_mtime \in BOOLEAN : import_exec_module(t, same_mtime)

ImportUnlink == \E t \in Threads : import_unlink(t)

\* Modules are saved for one entity; then each thread makes one
\* import_function call for it, their steps interleaved in every way.
NextActivate ==
    \/ AllIdle /\ SaveOf({"A"}, Programs)
    \/ ImportLoad({"A"})
    \/ ImportWriteTemp
    \/ ImportExecModule
    \/ ImportUnlink

SpecActivate == Init /\ [][NextActivate]_vars

SaveResolve(companies) ==
    \E t \in Threads, company_id \in companies, artifact \in Artifacts,
       version \in SaveVersions \cup {NoVersion} :
        save_resolve(t, company_id, artifact.function_code, artifact.metadata, version)

SaveWriteCurrent == \E t \in Threads : save_write_current(t)

SaveWriteVersioned == \E t \in Threads : save_write_versioned(t)

SaveWriteMetadata == \E t \in Threads : save_write_metadata(t)

SaveReadHistory == \E t \in Threads : save_read_history(t)

SaveWriteHistory == \E t \in Threads : save_write_history(t)

\* After some saves made one after the other, each thread makes one
\* save_function call for the same entity, their steps interleaved in every
\* way.
NextSaves ==
    \/ AllIdle /\ SaveOf({"A"}, Artifacts)
    \/ SaveResolve({"A"})
    \/ SaveWriteCurrent
    \/ SaveWriteVersioned
    \/ SaveWriteMetadata
    \/ SaveReadHistory
    \/ SaveWriteHistory

SpecSaves == Init /\ [][NextSaves]_vars

\* The same store used with an entity id that contains a character class.
NextBrackets == StorageCalls(BracketCompanies) \/ RegistryCalls(BracketCompanies)

SpecBrackets == Init /\ [][NextBrackets]_vars

\* One entity's saves, some of which fail at a write, and deletes.
NextFaults ==
    \/ Save({"A"})
    \/ SaveFails({"A"})
    \/ Delete({"A"})

SpecFaults == Init /\ [][NextFaults]_vars

\* Version strings a caller can pass that are not three dotted integers.
MalformedVersions == {"1.0", "1.0.0.5"}

SaveAs(companies, versions) ==
    \E company_id \in companies, artifact \in Artifacts, version \in versions :
        /\ now < MaxClock
        /\ save_function(company_id, artifact.function_code, artifact.metadata, version)

\* Saves with well-formed and malformed explicit versions, followed by
\* auto-versioned saves that parse what the ledger ends with.
NextParse ==
    \/ SaveAs({"A"}, SaveVersions \cup MalformedVersions \cup {NoVersion})
    \/ GetVersionHistory({"A"})

SpecParse == Init /\ [][NextParse]_vars

\* Explicit saves that re-tag earlier versions, mixed with auto-versioned
\* saves and deletes.
NextAllocate ==
    \/ SaveAs({"A"}, {"1.0.0", "1.0.1", NoVersion})
    \/ Delete({"A"})

SpecAllocate == Init /\ [][NextAllocate]_vars

Query ==
    \E t \in QueryThreads, client \in BOOLEAN, function_map \in FunctionMaps,
       max_iterations \in 0..MaxIterations :
        query(t, client, function_map, max_iterations)

QueryRound(t) ==
    \E create_raises \in BOOLEAN, tool_calls \in ToolCallLists,
       raise_at \in 0..MaxToolCalls, raise_in \in ToolFaults :
        /\ raise_at <= Len(tool_calls)
        /\ query_round(t, create_raises, tool_calls, raise_at, raise_in)

QueryExhausted(t) == query_exhausted(t)

\* One query; the thread that runs it keeps running, and every call of the
\* model and of a policy function returns or raises.
NextQuery ==
    \/ Query
    \/ \E t \in QueryThreads : QueryRound(t)
    \/ \E t \in QueryThreads : QueryExhausted(t)

SpecQuery ==
    /\ Init
    /\ [][NextQuery]_vars
    /\ \A t \in QueryThreads : WF_vars(QueryRound(t) \/ QueryExhausted(t))

ProcessPolicy ==
    \E company_name \in CompanyNames, function_code \in GeneratedCodes,
       auto_version \in BOOLEAN, fault \in PipelineFaults \cup {""},
       same_mtime \in BOOLEAN :
        /\ now <= MaxClock
        /\ process_policy(company_name, function_code,
                          [company_name |-> PyStr("Acme")], auto_version, fault,
                          same_mtime)

\* Runs of the pipeline for one company, with direct saves to the same store
\* and reads of the store and of the registry.
NextPipeline ==
    \/ ProcessPolicy
    \/ Save({"A"})
    \/ Load({"A"})
    \/ GetRegistry({"A"})

SpecPipeline == Init /\ [][NextPipeline]_vars

\* ------------------------------------------------------------------------
\* Properties
\* ------------------------------------------------------------------------

\* The last call was op and it returned (did not raise).
Returned(op) == last.call.op = op /\ last.raised = ""

\* Every save of the entity since its last purge was auto-versioned.
AutoOnly(company_id) ==
    \A i \in 1..Len(saves[company_id]) : saves[company_id][i].version = NoVersion

\* C1: in a run of saves without explicit version on an entity whose ledger
\* was empty, the n-th save resolves to 1.0.(n-1), whatever loads,
\* single-version deletes and calls on other entities come in between.
C1_VersionMonotonicity ==
    (/\ last.call.op = "save_function"
     /\ last.call.version = NoVersion
     /\ AutoOnly(last.call.company_id))
    => /\ last.raised = ""
       /\ last.result.version =
              "1.0." \o ToString(Len(saves[last.call.company_id]) - 1)

\* C2: right after a save that returned, load(E) finds the entity and its
\* code is the blob just saved.
C2_CurrentEqualsLatest ==
    Returned("save_function")
    => LET r == load_function(last.call.company_id, NoVersion)
       IN  /\ r # None
           /\ r.code = last.call.function_code

\* C3: right after save(E, blob, meta, version=v), load(E, v) returns blob as
\* code and a metadata record with version v and metadata mapping meta.
C3_RoundTrip ==
    (Returned("save_function") /\ last.call.version # NoVersion)
    => LET r == load_function(last.call.company_id, last.call.version)
       IN  /\ r # None
           /\ r.code = last.call.function_code
           /\ r.version = last.call.version
           /\ "metadata" \in DOMAIN r.metadata
           /\ r.metadata.metadata = last.call.metadata

\* C4: when an entity is only saved without explicit version, its first
\* save stores the blob as version 1.0.0, every further such save leaves
\* what load(E, "1.0.0") returns as it was, and after each of them load(E)
\* returns the blob just saved.
C4_EarlierVersionsKept ==
    (/\ Returned("save_function")
     /\ last.call.version = NoVersion
     /\ AutoOnly(last.call.company_id))
    => LET c == last.call.company_id
           was == load_from(before, c, "1.0.0")
           first == load_function(c, "1.0.0")
           current == load_function(c, NoVersion)
       IN  /\ current # None
           /\ current.code = last.call.function_code
           /\ first # None
           /\ Len(saves[c]) = 1 => first.code = last.call.function_code
           /\ (Len(saves[c]) > 1 /\ was # None) => first.code = was.code

\* The last call was delete_function without a version.
Purged == Returned("delete_function") /\ last.call.version = NoVersion

\* C5: after delete(E) without version, load(E) and load(E, v) for every
\* version v return None, the version history of E is empty and E is not
\* listed.
C5_FullPurge ==
    Purged
    => LET c == last.call.company_id
       IN  /\ load_function(c, NoVersion) = None
           /\ \A v \in AllVersions : load_function(c, v) = None
           /\ get_version_history(c) = <<>>
           /\ c \notin list_companies

\* C6: after delete(E) without version on a registered entity,
\* get_registry(E) returns None.
C6_PurgeRemovesRegistry ==
    (Purged /\ exists(before.metadata, registry_file(last.call.company_id)))
    => get_registry(last.call.company_id) = None

\* The last call was delete_function with a version.
VersionDeleted == Returned("delete_function") /\ last.call.version # NoVersion

\* C7: delete(E, v) removes the versioned copy and the metadata record of
\* (E, v) and nothing else: the functions directory, the ledger and registry
\* record of E and every other file are as before, and load(E) returns the
\* same code as before.
C7_DeleteVersionFrame ==
    VersionDeleted
    => LET c == last.call.company_id
           v == last.call.version
           was == load_from(before, c, NoVersion)
           is == load_function(c, NoVersion)
       IN  /\ functions_dir = before.functions
           /\ DOMAIN versions_dir = DOMAIN before.versions \ {version_file(c, v)}
           /\ \A n \in DOMAIN versions_dir : versions_dir[n] = before.versions[n]
           /\ DOMAIN metadata_dir = DOMAIN before.metadata \ {metadata_file(c, v)}
           /\ \A n \in DOMAIN metadata_dir : metadata_dir[n] = before.metadata[n]
           /\ get_version_history(c) = _get_version_history(before.metadata, c)
           /\ (was = None) = (is = None)
           /\ was # None => is.code = was.code

\* C7 witness: a version with a copy and a record was deleted while the
\* entity has a current copy and another version.
C7_Witness ==
    /\ VersionDeleted
    /\ exists(before.versions, version_file(last.call.company_id, last.call.version))
    /\ exists(before.metadata, metadata_file(last.call.company_id, last.call.version))
    /\ load_function(last.call.company_id, NoVersion) # None
    /\ \E v \in AllVersions : load_function(last.call.company_id, v) # None

\* Nothing of the entity is in the directories st: no current copy, no
\* ledger, and for no version a copy or a metadata record.
NothingStored(st, company_id) ==
    /\ ~exists(st.functions, current_file(company_id))
    /\ ~exists(st.metadata, history_file(company_id))
    /\ \A v \in AllVersions :
           /\ ~exists(st.versions, version_file(company_id, v))
           /\ ~exists(st.metadata, metadata_file(company_id, v))

\* C8: delete(E) for an entity with nothing stored, and delete(E, v) for a
\* version with neither copy nor record, return TRUE and leave the store
\* as it was.
C8_DeleteAbsentIsNoOp ==
    (/\ last.call.op = "delete_function"
     /\ IF last.call.version = NoVersion
        THEN NothingStored(before, last.call.company_id)
        ELSE /\ ~exists(before.versions,
                        version_file(last.call.company_id, last.call.version))
             /\ ~exists(before.metadata,
                        metadata_file(last.call.company_id, last.call.version)))
    => /\ last.raised = ""
       /\ last.result = TRUE
       /\ store = before

\* A version string of three integers, and the triple it denotes.
IsTriple(version) ==
    LET parts == split_dot(version)
    IN  Len(parts) = 3 /\ \A i \in 1..3 : int_ok(parts[i])

Triple(version) == [i \in 1..3 |-> int_of(split_dot(version)[i])]

\* Lexicographic order on integer triples.
TripleLeq(a, b) ==
    \/ a[1] < b[1]
    \/ a[1] = b[1] /\ a[2] < b[2]
    \/ a[1] = b[1] /\ a[2] = b[2] /\ a[3] <= b[3]

\* The highest version of a non-empty ledger of triples.
Highest(history) ==
    CHOOSE v \in {history[i].version : i \in 1..Len(history)} :
        \A i \in 1..Len(history) : TripleLeq(Triple(history[i].version), Triple(v))

C10_VersionedCopyImmutable ==
    Returned("save_function")
    => \A c \in Companies, v \in AllVersions :
           LET was == load_from(before, c, v)
               is == load_function(c, v)
           IN  was # None => (is # None /\ is.code = was.code)

\* The ledger entry a save that returned has appended.
SavedEntry ==
    [version |-> last.result.version,
     created_at |-> now - 1,
     code_hash |-> last.result.code_hash]

\* C11: the ledger of an entity changes only by a save of that entity, which
\* appends one entry with the resolved version and hash of that save, and by
\* a delete without version of that entity, which empties it; every other
\* call leaves every entry in place and in order.
C11_LedgerAppendOnly ==
    \A c \in Companies :
        LET was == _get_version_history(before.metadata, c)
            is == get_version_history(c)
        IN  IF Returned("save_function") /\ last.call.company_id = c
            THEN is = Append(was, SavedEntry)
            ELSE IF Purged /\ last.call.company_id = c
            THEN is = <<>>
            ELSE is = was

C13_LoadMissIsNone ==
    last.call.op = "load_function"
    => LET c == last.call.company_id
           v == last.call.version
           dir == IF v # NoVersion THEN versions_dir ELSE functions_dir
           file == IF v # NoVersion THEN version_file(c, v) ELSE current_file(c)
           miss == IF v # NoVersion THEN ~exists(dir, file)
                   ELSE get_version_history(c) = <<>> \/ ~exists(dir, file)
       IN  /\ last.raised = ""
           /\ store = before
           /\ miss <=> last.result = None
           /\ ~miss => last.result.code = dir[file]

\* get_registry reading the metadata directory md.
registry_in(md, company_id) ==
    IF ~exists(md, registry_file(company_id)) THEN None
    ELSE md[registry_file(company_id)]

\* The last call was register_functions with a module that lacks
\* get_available_functions.
RegisterRejected ==
    last.call.op = "register_functions" /\ ~has_discovery(last.call.module)

\* C14: register_functions with a module that lacks the discovery call does
\* not raise, returns an error value, and leaves the record of every entity
\* (and the whole store) as it was.
C14_RejectedRegistration ==
    RegisterRejected
    => /\ last.raised = ""
       /\ DOMAIN last.result = {"error"}
       /\ \A c \in Companies : get_registry(c) = registry_in(before.metadata, c)
       /\ store = before

\* C14 witness: such a call for an entity that has a registry record, while
\* another entity has none.
C14_Witness ==
    /\ RegisterRejected
    /\ get_registry(last.call.company_id) # None
    /\ \E c \in Companies : get_registry(c) = None

\* The last call was register_functions with a module that has
\* get_available_functions.
RegisterAccepted ==
    last.call.op = "register_functions" /\ has_discovery(last.call.module)

\* C15: after a successful register_functions(E, module), get_registry(E)
\* names E and lists exactly the functions the module declares, in their
\* order, whatever was registered for E before; the record of every other
\* entity is as it was.
C15_RegisterReplaces ==
    RegisterAccepted
    => LET c == last.call.company_id
           record == get_registry(c)
       IN  /\ last.raised = ""
           /\ record # None
           /\ record.company_id = c
           /\ record.functions = last.call.module.get_available_functions
           /\ last.result = record
           /\ \A other \in Companies \ {c} :
                  get_registry(other) = registry_in(before.metadata, other)

\* C15 witness: an entity registered with two functions is registered again
\* with a module that declares one.
C15_Witness ==
    /\ RegisterAccepted
    /\ registry_in(before.metadata, last.call.company_id) # None
    /\ Len(registry_in(before.metadata, last.call.company_id).functions) = 2
    /\ Len(last.call.module.get_available_functions) = 1

\* The last call was save_function with an explicit version.
ExplicitSave == last.call.op = "save_function" /\ last.call.version # NoVersion

\* C20: save_function with an explicit version does not raise whatever the
\* ledger of the entity holds, reports that version verbatim, and appends an
\* entry with that version to the ledger.
C20_ExplicitVersionVerbatim ==
    ExplicitSave
    => LET c == last.call.company_id
           was == _get_version_history(before.metadata, c)
           is == get_version_history(c)
       IN  /\ last.raised = ""
           /\ last.result.success
           /\ last.result.version = last.call.version
           /\ Len(is) = Len(was) + 1
           /\ SubSeq(is, 1, Len(was)) = was
           /\ is[Len(is)].version = last.call.version

\* C20 witness: an explicit save of a version that is not greater than the
\* latest version of the ledger.
C20_Witness ==
    /\ ExplicitSave
    /\ LET was == _get_version_history(before.metadata, last.call.company_id)
       IN  /\ was # <<>>
           /\ IsTriple(was[Len(was)].version)
           /\ IsTriple(last.call.version)
           /\ TripleLeq(Triple(last.call.version), Triple(was[Len(was)].version))

\* The entities for which get_registry returns a record.
Registered == {c \in AllCompanies : get_registry(c) # None}

\* C16: search_functions(keyword) returns the matching functions of every
\* entity that has a registry record, entity by entity in iteration order
\* and function by function in declaration order, each tagged with its
\* entity.
C16_SearchAllRegistered ==
    last.call.op = "search_functions"
    => /\ last.raised = ""
       /\ last.result = search_over(sorted(Registered), last.call.keyword)

\* C17: when import_function has returned or raised, the scratch file it
\* stages the code of the entity in does not exist.
C17_NoScratchFileLeft ==
    last.call.op = "import_function"
    => ~exists(storage_root, temp_file(last.call.company_id))

\* The thread has finished an import_function call that found its artifact.
Imported(t) ==
    /\ threads[t].pc = "done"
    /\ threads[t].call.op = "import_function"
    /\ threads[t].found

\* C18: every import_function call of a thread ends as the execution of the
\* code it loaded itself ends: it raises what that code raises, or returns
\* the module with the namespace of that code, whatever the other thread
\* does in between.
C18_ConcurrentImportsIndependent ==
    \A t \in Threads :
        Imported(t)
        => LET out == exec_outcome[threads[t].code]
           IN  /\ threads[t].raised = out.raised
               /\ out.raised = ""
                      => threads[t].result =
                             policy_module(threads[t].call.company_id, out.namespace)

\* The thread has finished a save_function call without version that
\* resolved a version.
AutoSaved(t) ==
    /\ threads[t].pc = "done"
    /\ threads[t].call.op = "save_function"
    /\ threads[t].call.version = NoVersion
    /\ "read" \in DOMAIN threads[t]

\* Both threads have finished saves without version that read the same
\* ledger when they resolved their version.
SameLedgerRead ==
    /\ \A t \in Threads : AutoSaved(t)
    /\ threads["T1"].read = threads["T2"].read

\* C19: when two concurrent saves without version of one entity read the
\* same ledger, both resolve the same version, neither raises and both
\* report success, and afterwards the versioned copy and the metadata record
\* of that version each hold the blob of one of the two calls only.
C19_ConcurrentSavesOverwrite ==
    SameLedgerRead
    => LET one == threads["T1"]
           two == threads["T2"]
           c == one.call.company_id
           v == one.version
       IN  /\ two.version = v
           /\ one.raised = "" /\ two.raised = ""
           /\ one.result.success /\ two.result.success
           /\ one.result.version = v /\ two.result.version = v
           /\ exists(versions_dir, version_file(c, v))
           /\ versions_dir[version_file(c, v)]
                  \in {one.call.function_code, two.call.function_code}
           /\ exists(metadata_dir, metadata_file(c, v))
           /\ metadata_dir[metadata_file(c, v)].code_hash
                  \in {one.result.code_hash, two.result.code_hash}

\* C19 witness: two such saves of different blobs have returned; the blob of
\* one of them is in no versioned copy.
C19_Witness ==
    /\ SameLedgerRead
    /\ threads["T1"].call.function_code # threads["T2"].call.function_code
    /\ threads["T1"].result.version = threads["T2"].result.version
    /\ \E t \in Threads :
           \A n \in DOMAIN versions_dir : versions_dir[n] # threads[t].call.function_code

\* The entities that have a current artifact in the functions directory dir.
WithCurrent(dir) == {c \in AllCompanies : exists(dir, current_file(c))}

\* The elements of a sequence.
Range(seq) == {seq[i] : i \in 1..Len(seq)}

\* C21: in every state list_companies returns the entities that have a
\* current artifact, each once, in ascending order; the entity of a save
\* that returned is listed, a delete with a version leaves the listing as
\* it was, and the entity of a delete without version is not listed.
C21_ListedIffCurrent ==
    LET listing == list_companies_sorted
    IN  /\ Range(listing) = WithCurrent(functions_dir)
        /\ \A i \in 1..(Len(listing) - 1) : str_less(listing[i], listing[i + 1])
        /\ last.call.op = "list_companies" => last.result = listing
        /\ Returned("save_function") => last.call.company_id \in Range(listing)
        /\ VersionDeleted => Range(listing) = WithCurrent(before.functions)
        /\ Purged => last.call.company_id \notin Range(listing)

\* C21 witness: the listing holds two entities after a delete with a version
\* has removed the only versioned copy of one of them.
C21_Witness ==
    /\ VersionDeleted
    /\ exists(before.versions, version_file(last.call.company_id, last.call.version))
    /\ \A v \in AllVersions : load_function(last.call.company_id, v) = None
    /\ Len(list_companies_sorted) = 2
    /\ last.call.company_id \in Range(list_companies_sorted)

\* The last call was a save that raised OSError at one of the accesses.
SaveFailedAt(accesses) ==
    /\ last.call.op = "save_function"
    /\ last.raised = "OSError"
    /\ last.at \in accesses

\* C22: after a save of an entity with a non-empty ledger has failed once the
\* current copy was written and before the ledger was appended, nothing is
\* rolled back: load(E) returns the new blob, the ledger is the one from
\* before the save, and the version load(E) reports is the one the ledger
\* ends with.
C22_NoRollbackAfterCurrent ==
    LET company_id == last.call.company_id
        history == _get_version_history(before.metadata, company_id)
        loaded == load_function(company_id, NoVersion)
    IN  (SaveFailedAt({"versioned", "metadata", "history"}) /\ history # <<>>) =>
            /\ loaded # None
            /\ loaded.code = last.call.function_code
            /\ get_version_history(company_id) = history
            /\ loaded.version = history[Len(history)].version

\* C23: a save that failed in version allocation, or while the current copy
\* was being opened and written, leaves the current artifact as it was:
\* load(E) returns what it returned before, and the ledger, the records and
\* the versioned copies are unchanged.
C23_FailedSaveKeepsCurrent ==
    LET company_id == last.call.company_id
    IN  (/\ last.call.op = "save_function"
         /\ \/ last.raised \in {"ValueError", "IndexError"}
            \/ SaveFailedAt({"current"})) =>
            /\ load_function(company_id, NoVersion) = load_from(before, company_id, NoVersion)
            /\ metadata_dir = before.metadata
            /\ versions_dir = before.versions

\* The version string is three dot-separated runs of decimal digits.
StrictTriple(version) ==
    LET parts == split_dot(version)
    IN  /\ Len(parts) = 3
        /\ \A i \in 1..3 :
               /\ parts[i] # ""
               /\ \A k \in 1..Len(parts[i]) : Char(parts[i], k) \in Digits

\* The last call was a save without explicit version on a non-empty ledger.
AutoSaveOnLedger ==
    /\ last.call.op = "save_function"
    /\ last.call.version = NoVersion
    /\ _get_version_history(before.metadata, last.call.company_id) # <<>>

\* C24: an auto-versioned save raises a version-parse error whenever the
\* version of the last ledger entry is not major.minor.patch with three
\* integers, and returns (major, minor, patch+1) whenever it is.
C24_AutoSaveParsesLastVersion ==
    LET history == _get_version_history(before.metadata, last.call.company_id)
        last_version == history[Len(history)].version
        triple == Triple(last_version)
    IN  AutoSaveOnLedger =>
            IF StrictTriple(last_version)
            THEN /\ last.raised = ""
                 /\ last.result.version =
                        ToString(triple[1]) \o "." \o ToString(triple[2]) \o "."
                        \o ToString(triple[3] + 1)
            ELSE last.raised \in {"ValueError", "IndexError"}

\* C25: whenever load(E) without version returns a result, its metadata is
\* the metadata record of the last ledger entry of E and the version it
\* reports is that entry's version, also after delete(E, v) of the latest v.
C25_LoadResolvesLastEntry ==
    \A company_id \in Companies :
        LET loaded == load_function(company_id, NoVersion)
            history == get_version_history(company_id)
            record == metadata_file(company_id, history[Len(history)].version)
        IN  loaded # None =>
                /\ history # <<>>
                /\ exists(metadata_dir, record)
                /\ loaded.metadata = metadata_dir[record]
                /\ loaded.version = history[Len(history)].version

\* C28: the version the allocator resolves for the next auto-versioned save
\* of an entity has no versioned copy and no metadata record yet.
C28_AllocatedVersionIsFresh ==
    \A company_id \in Companies :
        LET gen == _generate_version(metadata_dir, company_id)
        IN  gen.raised = "" =>
                /\ ~exists(versions_dir, version_file(company_id, gen.value))
                /\ ~exists(metadata_dir, metadata_file(company_id, gen.value))

\* In the directories st, wherever the versioned copy and the metadata
\* record of (E, v) both exist, the record's hash is the hash of the stored
\* versioned blob.
HashAgrees(st) ==
    \A company_id \in Companies, version \in AllVersions :
        (/\ exists(st.versions, version_file(company_id, version))
         /\ exists(st.metadata, metadata_file(company_id, version))) =>
            st.metadata[metadata_file(company_id, version)].code_hash
                = sha256_16[st.versions[version_file(company_id, version)]]

\* After a save that returned, the hash in its result, in the metadata
\* record and in the appended ledger entry is hash(blob), a value that
\* depends on the blob alone.
SaveRecordsHash ==
    LET company_id == last.call.company_id
        version == last.result.version
        history == get_version_history(company_id)
        hash == sha256_16[last.call.function_code]
    IN  Returned("save_function") =>
            /\ last.result.code_hash = hash
            /\ metadata_dir[metadata_file(company_id, version)].code_hash = hash
            /\ history[Len(history)].code_hash = hash
            /\ versions_dir[version_file(company_id, version)] = last.call.function_code

SameFile(dir_before, dir_after, name) ==
    /\ exists(dir_before, name) <=> exists(dir_after, name)
    /\ exists(dir_before, name) => dir_before[name] = dir_after[name]

\* C27: a save, a delete(E, v) or a delete(E) leaves the current copy, the
\* versioned copies, the metadata records, the ledger and the registry record
\* of every other entity F unchanged, also when F begins with E and "_v".
C27_OtherEntitiesUntouched ==
    last.call.op \in {"save_function", "delete_function"} =>
        \A other \in Companies \ {last.call.company_id} :
            /\ SameFile(before.functions, functions_dir, current_file(other))
            /\ \A version \in AllVersions :
                   /\ SameFile(before.versions, versions_dir, version_file(other, version))
                   /\ SameFile(before.metadata, metadata_dir, metadata_file(other, version))
            /\ SameFile(before.metadata, metadata_dir, history_file(other))
            /\ SameFile(before.metadata, metadata_dir, registry_file(other))

\* The thread is in a query call, in its loop or returned from it.
InQuery(t) ==
    /\ threads[t].pc \in {"query_loop", "done"}
    /\ threads[t].call.op = "query"

\* At most max_iterations calls of the model were made; in the loop every
\* call so far counted as one iteration; a finished query made at most one
\* call that was not counted, the one that ended it, and the result after
\* max_iterations counted rounds is the "Max iterations reached" error.
QueryBounded ==
    \A t \in QueryThreads :
        InQuery(t) =>
            LET f == threads[t]
            IN  /\ f.model_calls <= f.call.max_iterations
                /\ f.pc = "query_loop" => f.iteration = f.model_calls
                /\ f.pc = "done" =>
                       /\ f.raised = ""
                       /\ f.model_calls \in {f.iteration, f.iteration + 1}
                       /\ f.model_calls = f.iteration + 1 =>
                              \/ f.result = query_error(f.function_calls)
                              \/ "iterations" \in DOMAIN f.result
                       /\ (f.model_calls = f.iteration /\ f.call.client
                           /\ f.call.function_map # {}) =>
                              /\ f.iteration = f.call.max_iterations
                              /\ f.result = query_max_iterations(f.function_calls)

\* C29: query terminates after at most max_iterations calls of the model:
\* each call ends the query or counts as one iteration, and after
\* max_iterations counted rounds the "Max iterations reached" error is
\* returned, also when the model keeps asking for functions that are not in
\* the function map.
C29_QueryTerminates ==
    /\ []QueryBounded
    /\ \A t \in QueryThreads :
           (threads[t].pc = "query_loop") ~> (threads[t].pc = "done")

\* The model asked for an unknown function in every round: no function was
\* executed, and the query returned the error after max_iterations calls.
C29_Witness ==
    \E t \in QueryThreads :
        /\ InQuery(t)
        /\ threads[t].pc = "done"
        /\ threads[t].call.max_iterations >= 2
        /\ threads[t].model_calls = threads[t].call.max_iterations
        /\ threads[t].function_calls = <<>>
        /\ threads[t].result = query_max_iterations(<<>>)

\* C30: whenever process_policy returns success True, load(company_id)
\* returns the code generated in that run and the registry record of
\* company_id is the one written in that run, with the function list that
\* code declares; every other result has success False and an error.
C30_PipelineStoreAndRegistryAgree ==
    LET results == last.result
        loaded == load_function(results.company_id, NoVersion)
        registry == get_registry(results.company_id)
    IN  last.call.op = "process_policy" =>
            IF results.success
            THEN /\ loaded # None
                 /\ loaded.code = results.function_code
                 /\ registry # None
                 /\ registry = results.registry
                 /\ registry.registered_at = now - 1
                 /\ registry.functions =
                        exec_outcome[read_text(results.function_code)]
                            .namespace.get_available_functions
            ELSE "error" \in DOMAIN results

====
